---------------------------- MODULE Spec2Model ----------------------------
(***************************************************************************)
(* A model of src/src/AnimatedSquare.ts: the grid generator (random cut    *)
(* lines -> rectangular cells with center/direction/distance metadata) and *)
(* the animation driver (phase, peak detection, regeneration, draw).       *)
(*                                                                         *)
(* Numbers.  JavaScript numbers are modelled in fixed point: the integer n *)
(* stands for the number n / Unit.  Every arithmetic operation of the      *)
(* source is carried out operation by operation on these values, rounding  *)
(* down to the model's resolution.  The one non-finite value the           *)
(* source can produce, NaN (from 0 / 0), is the value NaN below and        *)
(* propagates through arithmetic as in IEEE 754.                           *)
(*                                                                         *)
(* Angles.  phase, previousPhase and animationSpeed are counted in angular *)
(* steps of pi / PiUnits radians, so that pi and 2 pi are exact.  The      *)
(* source's phase is a double accumulated by +=: where the exact angle     *)
(* lands on a boundary of the peak test (a multiple of pi) the double may  *)
(* lie a few units in the last place below it, and the test then goes the  *)
(* other way.  The model keeps the direction of that rounding beside the   *)
(* phase.  While the phase stays between two powers of two every sum is    *)
(* rounded by the same amount, so the error of the double drifts one way   *)
(* and its direction changes at most once; the model lets the direction    *)
(* be either when a sum lands on a boundary, within that limit.            *)
(***************************************************************************)
EXTENDS Integers, Sequences, FiniteSets

VARIABLES
    status,            \* "new" before the constructor body, then "running" or "failed" (the Error was thrown)
    contextAvailable,  \* whether canvas.getContext("2d") yields a context
    config,            \* this.config
    canvas,            \* canvas.width / canvas.height
    shapes,            \* this.shapes
    phase,             \* this.phase, the exact angle in angular steps
    previousPhase,     \* this.previousPhase, likewise
    phaseRoundedDown,  \* whether the double this.phase lies below the exact angle
    previousPhaseRoundedDown, \* the same for this.previousPhase
    roundingExponent,  \* the binary exponent of the phase at the last boundary
    roundingChanged,   \* whether the direction has changed within that exponent
    maxDistance,       \* this.maxDistance
    maxTotalOffset,    \* this.maxTotalOffset
    verticalLines,     \* initShapes' verticalLines after createShapes sorted it in place
    horizontalLines,   \* initShapes' horizontalLines, likewise
    frame,             \* what the last draw() computed and painted
    pendingFrames,     \* callbacks registered with requestAnimationFrame and not yet run
    generations,       \* history: number of initShapes calls so far
    ticks,             \* history: number of updateAnimation calls so far
    regenerations,     \* history: number of regenerateShapes calls so far
    lastTickRegenerated \* history: whether the last updateAnimation ran regenerateShapes

vars == <<status, contextAvailable, config, canvas, shapes, phase,
          previousPhase, phaseRoundedDown, previousPhaseRoundedDown,
          roundingExponent, roundingChanged, maxDistance, maxTotalOffset,
          verticalLines,
          horizontalLines, frame, pendingFrames, generations, ticks,
          regenerations, lastTickRegenerated>>

---------------------------------------------------------------------------
(* Bounds of the model *)

\* fixed-point resolution: n stands for n / Unit
Unit == 100

\* angular resolution: pi is PiUnits angular steps (the default
\* animationSpeed, 0.012 rad, is then one step)
PiUnits == 264

\* the step sizes followed are the multiples of pi / SpeedSteps below 2 pi
SpeedSteps == 4

\* Math.random() returns one of RandSteps evenly spaced values of [0, 1)
RandSteps == 3

\* frames are run for as many ticks as MaxCycles periods take at the
\* smallest step size followed
MaxCycles == 2

---------------------------------------------------------------------------
(* Number model *)

\* IEEE NaN, the result of 0 / 0 (a value outside the range of the model's numbers)
NaN == -2000000000

\* the element of a one-element set; { e(x) : x \in {v} } names the value of
\* v as x, so that e reads it without computing it again
The(S) == CHOOSE x \in S : TRUE

Abs(a) == IF a < 0 THEN -a ELSE a

Sgn(a) == IF a < 0 THEN -1 ELSE IF a > 0 THEN 1 ELSE 0

\* the integer n as a model number
Fix(n) == n * Unit

\* num / den as a model number (a decimal literal such as 1.4 = 14 / 10)
Ratio(num, den) == (num * Unit) \div den

\* a * b for finite a and b
Times(a, b) == (a * b) \div Unit

\* a + b, a - b, a * b and a / b where an operand may be NaN: NaN
\* propagates, and 0 / 0 is NaN.  (x / 0 with x # 0 would be an Infinity:
\* the source never divides a nonzero value by zero, and TLC would report
\* the division.)
FAdd(a, b) ==
    The({ IF x = NaN \/ y = NaN THEN NaN ELSE x + y : x \in {a}, y \in {b} })

FSub(a, b) ==
    The({ IF x = NaN \/ y = NaN THEN NaN ELSE x - y : x \in {a}, y \in {b} })

FMul(a, b) ==
    The({ IF x = NaN \/ y = NaN THEN NaN ELSE (x * y) \div Unit
          : x \in {a}, y \in {b} })

FDiv(a, b) ==
    The({ IF x = NaN \/ y = NaN THEN NaN
          ELSE IF x = 0 /\ y = 0 THEN NaN
          ELSE (x * Unit) \div y
          : x \in {a}, y \in {b} })

\* Math.sqrt(dx * dx + dy * dy) for finite dx and dy, rounded down to the
\* model's resolution.  The sum of squares is kept at full precision and
\* rounded once, at the root: floating point rounds relatively, so the
\* source's root is zero only when dx and dy both are.  (The root lies
\* between the larger of |dx|, |dy| and their sum.)
Hypot(dx, dy) ==
    The({ CHOOSE r \in (IF Abs(x) >= Abs(y) THEN Abs(x) ELSE Abs(y))
                         ..(Abs(x) + Abs(y)) :
              r * r <= x * x + y * y /\ x * x + y * y < (r + 1) * (r + 1)
          : x \in {dx}, y \in {dy} })

\* Math.floor of a non-negative model number, as a plain integer
Floor(a) == a \div Unit

\* Math.cos of an angle given in angular steps, as a model number.  The
\* cosine is computed from its symmetries and, on [-pi/2, pi/2], Bhaskara's
\* rational approximation (pi^2 - 4 x^2) / (pi^2 + x^2), which is exact at
\* 0, +-pi/2 and (by symmetry) pi, and strictly monotone in between.
CosQuarter(a) ==
    ((PiUnits * PiUnits - 4 * a * a) * Unit) \div (PiUnits * PiUnits + a * a)

Cos(angle) ==
    The({ IF 2 * m <= PiUnits THEN CosQuarter(m)
          ELSE IF 2 * m >= 3 * PiUnits THEN CosQuarter(2 * PiUnits - m)
          ELSE -CosQuarter(Abs(m - PiUnits))
          : m \in { angle % (2 * PiUnits) } })

\* Math.max(...values) of a non-empty sequence of finite numbers
MaxOf(values) ==
    The({ CHOOSE m \in numbers : \A n \in numbers : m >= n
          : numbers \in { { values[k] : k \in 1..Len(values) } } })

\* a sort left out: the array as generated
SortOmitted(lines) == lines

\* Array.prototype.sort((a, b) => a - b): the same numbers in ascending
\* order.  Position i holds the number x with fewer than i elements below
\* it and at least i elements not above it.
SortAscending(lines) ==
    [ i \in 1..Len(lines) |->
        CHOOSE x \in { lines[k] : k \in 1..Len(lines) } :
            /\ Cardinality({ k \in 1..Len(lines) : lines[k] < x }) < i
            /\ i <= Cardinality({ k \in 1..Len(lines) : lines[k] <= x }) ]

---------------------------------------------------------------------------
(* Configuration *)

\* pi and 2 pi in angular steps (Math.PI, 2 * Math.PI)
Pi == PiUnits

TwoPi == 2 * PiUnits

\* the defaults of the constructor.  animationSpeed 0.012 rad is
\* 0.012 * PiUnits / pi angular steps (pi ~ 3142 / 1000): one step.
DefaultConfig ==
    [ size               |-> Fix(300),
      padding            |-> Fix(240),
      animationSpeed     |-> (12 * PiUnits) \div 3142,
      scaleFactor        |-> Ratio(14, 10),
      maxRandomCount     |-> 10,
      minRandomCount     |-> 5,
      maxBaseOffset      |-> Fix(100),
      distanceMultiplier |-> Ratio(5, 10) ]

\* { ...defaults, ...config }
MergeConfig(given) ==
    [ f \in DOMAIN DefaultConfig |->
        IF f \in DOMAIN given THEN given[f] ELSE DefaultConfig[f] ]

\* The configurations the constructor is given.  All are valid
\* (minRandomCount <= maxRandomCount, size > 0, padding > 0).  The first
\* two families run the step sizes k pi / SpeedSteps, 0 < animationSpeed <
\* 2 pi, over the uncut region (one cell) and over a small grid (0 or 1 cut
\* per axis); the third is a denser grid (2 cuts per axis, which may
\* coincide with each other or with the left/top edge) with its own
\* offsets, at the default animationSpeed.
PartialConfigs ==
    { [ size |-> Fix(8), padding |-> Fix(2),
        animationSpeed |-> k * (PiUnits \div SpeedSteps),
        minRandomCount |-> 0, maxRandomCount |-> cuts ]
      : k \in 1..(2 * SpeedSteps - 1), cuts \in 0..1 }
    \cup
    { [ size |-> Fix(8), padding |-> Fix(2),
        minRandomCount |-> 2, maxRandomCount |-> 2,
        scaleFactor |-> Ratio(3, 2), maxBaseOffset |-> Fix(10),
        distanceMultiplier |-> Ratio(1, 4) ] }

---------------------------------------------------------------------------
(* Grid generator *)

\* the values Math.random() may return: RandSteps evenly spaced numbers of [0, 1)
RandomValues == { (k * Unit) \div RandSteps : k \in 0..(RandSteps - 1) }

\* a count range shifted by one
LineCountShifted(r, cfg) ==
    Floor(r * (cfg.maxRandomCount - cfg.minRandomCount + 1))
        + cfg.minRandomCount + 1

\* Math.floor(Math.random() * (maxRandomCount - minRandomCount + 1)) + minRandomCount
LineCount(r, cfg) ==
    Floor(r * (cfg.maxRandomCount - cfg.minRandomCount + 1))
        + cfg.minRandomCount

\* padding + Math.random() * size
LinePosition(r, cfg) == cfg.padding + Times(r, cfg.size)

\* the arrays generateRandomLines() may return: Array.from({ length: lineCount }, ...)
GenerateRandomLines(cfg) ==
    UNION { [ 1..LineCount(r, cfg) -> { LinePosition(q, cfg) : q \in RandomValues } ]
            : r \in RandomValues }

CreateShapePoints(xStart, xEnd, yStart, yEnd) ==
    << [x |-> xStart, y |-> yStart],
       [x |-> xEnd,   y |-> yStart],
       [x |-> xEnd,   y |-> yEnd],
       [x |-> xStart, y |-> yEnd] >>

RECURSIVE SumPoints(_, _)
\* points.reduce((acc, p) => ({x: acc.x + p.x, y: acc.y + p.y}), acc)
SumPoints(points, acc) ==
    IF points = << >> THEN acc
    ELSE SumPoints(Tail(points),
                   [x |-> acc.x + Head(points).x,
                    y |-> acc.y + Head(points).y])

CalculateCenter(points) ==
    LET sum == SumPoints(points, [x |-> 0, y |-> 0])
    IN  [x |-> sum.x \div Len(points), y |-> sum.y \div Len(points)]

GetSquareCenter(cfg) ==
    [x |-> cfg.size \div 2 + cfg.padding,
     y |-> cfg.size \div 2 + cfg.padding]

CalculateDirectionVector(center, cfg) ==
    LET squareCenter == GetSquareCenter(cfg)
        dx == center.x - squareCenter.x
        dy == center.y - squareCenter.y
    IN  The({ [x |-> FDiv(dx, length), y |-> FDiv(dy, length)]
              : length \in { Hypot(dx, dy) } })

CalculateDistanceFromCenter(center, cfg) ==
    LET squareCenter == GetSquareCenter(cfg)
        dx == center.x - squareCenter.x
        dy == center.y - squareCenter.y
    IN  Hypot(dx, dy)

CreateShape(points, cfg) ==
    The({ [ points             |-> points,
            center             |-> center,
            directionVector    |-> CalculateDirectionVector(center, cfg),
            distanceFromCenter |-> CalculateDistanceFromCenter(center, cfg) ]
          : center \in { CalculateCenter(points) } })

\* [padding, ...lines.sort((a, b) => a - b), padding + size]
Sections(lines, cfg) ==
    <<cfg.padding>> \o SortAscending(lines) \o <<cfg.padding + cfg.size>>

\* sections.vertical.slice(0, -1).flatMap((xStart, i) =>
\*   sections.horizontal.slice(0, -1).map((yStart, j) => createShape(...)))
CreateShapes(vLines, hLines, cfg) ==
    The({ LET columns == Len(vertical) - 1
              rows    == Len(horizontal) - 1
          IN  << >> \o
              [ k \in 1..(columns * rows) |->
                  LET i == ((k - 1) \div rows) + 1
                      j == ((k - 1) % rows) + 1
                  IN  CreateShape(
                          CreateShapePoints(vertical[i], vertical[i + 1],
                                            horizontal[j], horizontal[j + 1]),
                          cfg) ]
          : vertical   \in { Sections(vLines, cfg) },
            horizontal \in { Sections(hLines, cfg) } })

\* offsets taken from the first cell instead of the furthest
CalculateOffsetsFirstCell(cells, cfg) ==
    [ maxDistance    |-> cells[1].distanceFromCenter,
      maxTotalOffset |-> cfg.maxBaseOffset
                           + Times(cells[1].distanceFromCenter,
                                   cfg.distanceMultiplier) ]

\* the two fields calculateOffsets assigns
CalculateOffsets(cells, cfg) ==
    The({ [ maxDistance    |-> furthest,
            maxTotalOffset |-> cfg.maxBaseOffset
                                 + Times(furthest, cfg.distanceMultiplier) ]
          : furthest \in { MaxOf([k \in 1..Len(cells) |->
                                    cells[k].distanceFromCenter]) } })

\* initShapes() when the two generateRandomLines() calls return vLines and
\* hLines: the cells it returns, the fields calculateOffsets set on the way,
\* and the two arrays as createShapes' in-place sort leaves them.
InitShapes(vLines, hLines, cfg) ==
    The({ [ shapes          |-> cells,
            maxDistance     |-> CalculateOffsets(cells, cfg).maxDistance,
            maxTotalOffset  |-> CalculateOffsets(cells, cfg).maxTotalOffset,
            verticalLines   |-> SortAscending(vLines),
            horizontalLines |-> SortAscending(hLines) ]
          : cells \in { CreateShapes(vLines, hLines, cfg) } })

---------------------------------------------------------------------------
(* Animation driver *)

\* this.phase % (2 * Math.PI) < Math.PI for the double whose exact angle is
\* angle: on a boundary the rounding decides (a double just below a
\* multiple of 2 pi has a remainder just below 2 pi)
ModBelowPi(angle, roundedDown) ==
    LET mod == angle % TwoPi
    IN  IF mod = 0 THEN ~roundedDown
        ELSE IF mod = Pi THEN roundedDown
        ELSE mod < Pi

\* a peak test that includes the trough itself on the previous side
PeakCrossedInclusive(prev, prevDown, current, currentDown) ==
    /\ (ModBelowPi(prev, prevDown) \/ prev % TwoPi = Pi)
    /\ ~ModBelowPi(current, currentDown)

\* a level-triggered peak test: the second half of the period
PeakCrossedLevel(prev, prevDown, current, currentDown) ==
    ~ModBelowPi(current, currentDown)

\* an edge test on either side alone
PeakCrossedEither(prev, prevDown, current, currentDown) ==
    ModBelowPi(prev, prevDown) \/ ~ModBelowPi(current, currentDown)

\* checkForPeak's condition on previousPhase and phase:
\* prevMod < Math.PI && currentMod >= Math.PI
PeakCrossed(prev, prevDown, current, currentDown) ==
    LET prevBelow    == ModBelowPi(prev, prevDown)
        currentBelow == ModBelowPi(current, currentDown)
    IN  prevBelow /\ ~currentBelow

\* (Math.cos(this.phase) + 1) / 2
Progress(angle) == (Cos(angle) + Fix(1)) \div 2

\* calculateIndividualOffset, reading this.maxDistance
CalculateIndividualOffset(shape, baseOffset, totalOffset, furthest) ==
    LET distanceFactor == FDiv(shape.distanceFromCenter, furthest)
    IN  FAdd(baseOffset, FMul(FSub(totalOffset, baseOffset), distanceFactor))

\* getShapeColor's hue: ((center.x + center.y) * 0.3) % 360
GetShapeHue(center) == Times(center.x + center.y, Ratio(3, 10)) % Fix(360)

\* drawShape: the offset, the translation of applyTransformations and the
\* fill of drawShapePath for one cell
DrawShape(shape, scale, baseOffset, totalOffset, furthest) ==
    LET individualOffset ==
            CalculateIndividualOffset(shape, baseOffset, totalOffset, furthest)
    IN  [ points           |-> shape.points,
          center           |-> shape.center,
          individualOffset |-> individualOffset,
          moveX            |-> FMul(shape.directionVector.x, individualOffset),
          moveY            |-> FMul(shape.directionVector.y, individualOffset),
          scale            |-> scale,
          hue              |-> GetShapeHue(shape.center) ]

\* draw(): what one frame paints, from the fields it reads
Draw(cells, angle, furthest, furthestOffset, cfg) ==
    LET progress    == Progress(angle)
        scale       == Fix(1) + Times(progress, cfg.scaleFactor - Fix(1))
        baseOffset  == Times(progress, cfg.maxBaseOffset)
        totalOffset == Times(progress, furthestOffset)
    IN  [ painted        |-> TRUE,
          progress       |-> progress,
          scale          |-> scale,
          baseOffset     |-> baseOffset,
          totalOffset    |-> totalOffset,
          maxDistance    |-> furthest,
          maxTotalOffset |-> furthestOffset,
          shapes         |-> cells,
          cells          |-> [ k \in 1..Len(cells) |->
                                 DrawShape(cells[k], scale, baseOffset,
                                           totalOffset, furthest) ] ]

\* the canvas before the first draw()
NoFrame ==
    [ painted |-> FALSE, progress |-> 0, scale |-> 0, baseOffset |-> 0,
      totalOffset |-> 0, maxDistance |-> 0, maxTotalOffset |-> 0,
      shapes |-> << >>, cells |-> << >> ]

\* a phase kept inside one period
AdvancePhaseWrapped(angle, cfg) == (angle + cfg.animationSpeed) % TwoPi

\* this.phase += this.config.animationSpeed
AdvancePhase(angle, cfg) == angle + cfg.animationSpeed

\* the binary exponent of the double holding angle: e with
\* 2^e <= angle in radians < 2^(e+1) (pi ~ 3142 / 1000); the phase starts
\* at pi, and angles below 2 count with exponent 0
Exponent(angle) ==
    CHOOSE e \in 0..10 :
        /\ e > 0 => (2 ^ e) * 1000 * PiUnits <= angle * 3142
        /\ angle * 3142 < (2 ^ (e + 1)) * 1000 * PiUnits

\* the rounding directions the sum may have when its exact angle is
\* advanced.  It matters only on a boundary of the peak test.  Sums of one
\* binary exponent are all rounded by the same amount, so the error drifts
\* one way: among the boundaries met within one exponent the direction
\* changes at most once.
SumRounding(advanced, roundedDown, exponent, changed) ==
    IF advanced % Pi # 0 THEN { roundedDown }
    ELSE IF Exponent(advanced) # exponent THEN BOOLEAN
    ELSE IF changed THEN { roundedDown }
    ELSE BOOLEAN

\* regenerateShapes() when generateRandomLines() returns vLines and hLines:
\* this.shapes = this.initShapes(); this.calculateOffsets(this.shapes)
RegenerateShapes(vLines, hLines, cfg) ==
    The({ [ made EXCEPT
              !.maxDistance    = CalculateOffsets(made.shapes, cfg).maxDistance,
              !.maxTotalOffset = CalculateOffsets(made.shapes, cfg).maxTotalOffset ]
          : made \in { InitShapes(vLines, hLines, cfg) } })

\* the arrays a tick draws at random: none unless it regenerates
LinesDrawn(needed, cfg) == IF needed THEN GenerateRandomLines(cfg) ELSE { << >> }

\* the driver fields as they stand
Fields ==
    [ shapes          |-> shapes,
      maxDistance     |-> maxDistance,
      maxTotalOffset  |-> maxTotalOffset,
      verticalLines   |-> verticalLines,
      horizontalLines |-> horizontalLines ]

\* One animate() call on the driver fields cur and the phase angle:
\* updateAnimation() saves the phase, advances it (the sum rounded as
\* advancedDown says), checks for the peak (regenerating if it was crossed)
\* and draws; requestAnimationFrame(animate) then registers one callback.
\* vLines and hLines are what generateRandomLines() returns if the tick
\* regenerates.
Animate(cur, angle, advancedDown, vLines, hLines, callbacksLeft, made) ==
    LET saved    == angle
        advanced == AdvancePhase(angle, config)
        peak     == PeakCrossed(saved, phaseRoundedDown, advanced, advancedDown)
    IN  /\ previousPhase' = saved
        /\ previousPhaseRoundedDown' = phaseRoundedDown
        /\ phase' = advanced
        /\ phaseRoundedDown' = advancedDown
        /\ roundingExponent' = (IF advanced % Pi = 0 THEN Exponent(advanced)
                                                     ELSE roundingExponent)
        /\ roundingChanged' =
               (IF advanced % Pi # 0 THEN roundingChanged
                ELSE IF Exponent(advanced) # roundingExponent THEN FALSE
                ELSE roundingChanged \/ advancedDown # phaseRoundedDown)
        /\ verticalLines' = (IF peak THEN SortAscending(vLines)
                                     ELSE cur.verticalLines)
        /\ horizontalLines' = (IF peak THEN SortAscending(hLines)
                                       ELSE cur.horizontalLines)
        /\ \E after \in { IF peak THEN RegenerateShapes(vLines, hLines, config)
                                   ELSE cur } :
           \E painted \in { Draw(after.shapes, advanced, after.maxDistance,
                                 after.maxTotalOffset, config) } :
               /\ shapes' = after.shapes
               /\ maxDistance' = after.maxDistance
               /\ maxTotalOffset' = after.maxTotalOffset
               /\ frame' = painted
        /\ pendingFrames' = callbacksLeft + 1
        /\ ticks' = ticks + 1
        /\ generations' = made + (IF peak THEN 1 ELSE 0)
        /\ regenerations' = regenerations + (IF peak THEN 1 ELSE 0)
        /\ lastTickRegenerated' = peak

\* the rounding of the next sum and, if the tick regenerates, the arrays
\* generateRandomLines() returns: then animate() on the fields cur
Tick(cur, callbacksLeft, made) ==
    \E advancedDown \in SumRounding(AdvancePhase(phase, config),
                                    phaseRoundedDown, roundingExponent,
                                    roundingChanged) :
        LET needed == PeakCrossed(phase, phaseRoundedDown,
                                  AdvancePhase(phase, config), advancedDown)
        IN  \E vLines \in LinesDrawn(needed, config),
               hLines \in LinesDrawn(needed, config) :
                 Animate(cur, phase, advancedDown, vLines, hLines,
                         callbacksLeft, made)

\* a null context let through
ContextNeverMissing == FALSE

\* initCanvasContext's getContext("2d") returned null: it throws
ContextMissing == ~contextAvailable

\* The field initialisers and the merge of the configuration, before the
\* constructor calls initCanvasContext.
Init ==
    /\ status = "new"
    /\ contextAvailable \in BOOLEAN
    /\ config \in { MergeConfig(given) : given \in PartialConfigs }
    /\ canvas = [width |-> 0, height |-> 0]
    /\ shapes = << >>
    /\ phase = Pi
    /\ previousPhase = Pi
    /\ phaseRoundedDown = FALSE
    /\ previousPhaseRoundedDown = FALSE
    /\ roundingExponent = Exponent(Pi)
    /\ roundingChanged = FALSE
    /\ maxDistance = 0
    /\ maxTotalOffset = 0
    /\ verticalLines = << >>
    /\ horizontalLines = << >>
    /\ frame = NoFrame
    /\ pendingFrames = 0
    /\ generations = 0
    /\ ticks = 0
    /\ regenerations = 0
    /\ lastTickRegenerated = FALSE

\* The rest of the constructor: initCanvasContext (sizes the canvas, throws
\* without a context), initShapes, initAnimation (the first animate() call).
Construct ==
    /\ status = "new"
    /\ canvas' = [ width  |-> config.size + config.padding * 2,
                   height |-> config.size + config.padding * 2 ]
    /\ IF ContextMissing
       THEN /\ status' = "failed"
            /\ UNCHANGED <<contextAvailable, config, shapes, phase,
                           previousPhase, phaseRoundedDown,
                           previousPhaseRoundedDown, roundingExponent,
                           roundingChanged,
                           maxDistance, maxTotalOffset,
                           verticalLines, horizontalLines, frame,
                           pendingFrames, generations, ticks, regenerations,
                           lastTickRegenerated>>
       ELSE /\ status' = "running"
            /\ \E vFirst \in GenerateRandomLines(config),
                  hFirst \in GenerateRandomLines(config) :
                 \E first \in { InitShapes(vFirst, hFirst, config) } :
                   Tick(first, 0, 1)
            /\ UNCHANGED <<contextAvailable, config>>

\* the ticks one period takes at the smallest step size followed
TicksPerPeriod == 2 * SpeedSteps

\* the horizon of the model, in ticks
MaxTicks == MaxCycles * TicksPerPeriod

\* The host runs one registered frame callback: animate().
Frame ==
    /\ status = "running"
    /\ pendingFrames > 0
    /\ ticks < MaxTicks
    /\ Tick(Fields, pendingFrames - 1, generations)
    /\ UNCHANGED <<status, contextAvailable, config, canvas>>

Next == Construct \/ Frame

Spec == Init /\ [][Next]_vars

\* The same driver under a fair host, which keeps invoking the registered
\* frame callback; followed at every step size on the uncut region, the
\* driver's stepping being independent of the cells.
FairInit == Init /\ config.maxRandomCount = 0

FairSpec == FairInit /\ [][Next]_vars /\ WF_vars(Frame)

---------------------------------------------------------------------------
(* Properties *)

Running == status = "running"

\* the peak condition as the specification words it: prevMod < pi <= currMod
SpecPeak(prev, prevDown, current, currentDown) ==
    ModBelowPi(prev, prevDown) /\ ~ModBelowPi(current, currentDown)

\* full periods completed by the cumulative phase since the initial phase
\* pi: the points pi + 2 k pi, k >= 1, the double has reached
PeriodsCompleted ==
    (phase - Pi) \div TwoPi
        - (IF phase > Pi /\ (phase - Pi) % TwoPi = 0 /\ phaseRoundedDown
           THEN 1 ELSE 0)

\* C1 (as amended): for every animationSpeed with 0 < animationSpeed < pi,
\* from the initial phase pi and after any number of ticks, regeneration
\* has fired exactly once for each full 2 pi the cumulative phase has grown:
\* no crossing of pi (mod 2 pi) is missed and none fires twice.
PeakOncePerPeriodBelowPi ==
    (Running /\ config.animationSpeed < Pi) => regenerations = PeriodsCompleted

\* C1 witness: two periods completed and two regenerations, with a step
\* below pi that does not divide the period
PeakOncePerPeriodWitness ==
    /\ Running
    /\ config.animationSpeed < Pi
    /\ TwoPi % config.animationSpeed # 0
    /\ PeriodsCompleted = 2
    /\ regenerations = 2

\* C1 (as claimed): the same for every animationSpeed with
\* 0 < animationSpeed < 2 pi, steps between pi and 2 pi included.
PeakOncePerPeriodBelowTwoPi ==
    (Running /\ config.animationSpeed < TwoPi) => regenerations = PeriodsCompleted

---------------------------------------------------------------------------

RECURSIVE SumOver(_)
SumOver(values) ==
    IF values = << >> THEN 0 ELSE Head(values) + SumOver(Tail(values))

MinCoord(points, axis) ==
    CHOOSE m \in { points[k][axis] : k \in 1..Len(points) } :
        \A k \in 1..Len(points) : m <= points[k][axis]

MaxCoord(points, axis) ==
    CHOOSE m \in { points[k][axis] : k \in 1..Len(points) } :
        \A k \in 1..Len(points) : m >= points[k][axis]

\* the area a cell's polygon covers (in Unit * Unit)
CellArea(cell) ==
    (MaxCoord(cell.points, "x") - MinCoord(cell.points, "x"))
        * (MaxCoord(cell.points, "y") - MinCoord(cell.points, "y"))

CellInsideRegion(cell, cfg) ==
    \A k \in 1..Len(cell.points) :
        /\ cfg.padding <= cell.points[k].x
        /\ cell.points[k].x <= cfg.padding + cfg.size
        /\ cfg.padding <= cell.points[k].y
        /\ cell.points[k].y <= cfg.padding + cfg.size

\* the open intervals (lo1, hi1) and (lo2, hi2) meet
IntervalsMeet(lo1, hi1, lo2, hi2) ==
    (IF lo1 >= lo2 THEN lo1 ELSE lo2) < (IF hi1 <= hi2 THEN hi1 ELSE hi2)

InteriorsOverlap(a, b) ==
    /\ IntervalsMeet(MinCoord(a.points, "x"), MaxCoord(a.points, "x"),
                     MinCoord(b.points, "x"), MaxCoord(b.points, "x"))
    /\ IntervalsMeet(MinCoord(a.points, "y"), MaxCoord(a.points, "y"),
                     MinCoord(b.points, "y"), MaxCoord(b.points, "y"))

\* C2: for every valid configuration and every choice of cut positions in
\* [padding, padding + size), duplicates and cuts equal to padding included,
\* the cells of one generation exactly tile the square region: their areas
\* sum to size^2, every cell lies inside the region, and no two cells'
\* interiors overlap.
CellsTileRegion ==
    Running =>
        /\ SumOver([k \in 1..Len(shapes) |-> CellArea(shapes[k])])
               = config.size * config.size
        /\ \A k \in 1..Len(shapes) : CellInsideRegion(shapes[k], config)
        /\ \A k \in 1..Len(shapes) : \A n \in 1..Len(shapes) :
               k # n => ~InteriorsOverlap(shapes[k], shapes[n])

\* C2 witness: nine cells of a generation whose vertical cuts coincide and
\* whose first horizontal cut lies on the region's edge (cut = padding)
CellsTileRegionWitness ==
    /\ Running
    /\ generations >= 1
    /\ Len(shapes) = 9
    /\ verticalLines[1] = verticalLines[2]
    /\ verticalLines[1] > config.padding
    /\ horizontalLines[1] = config.padding
    /\ horizontalLines[2] > config.padding

---------------------------------------------------------------------------

\* C3: in every generation the two line counts are each an integer in
\* [minRandomCount, maxRandomCount], chosen independently, and the number
\* of cells is (vCuts + 1) * (hCuts + 1), each cell having exactly 4 points.
CellCountFromLineCounts ==
    Running =>
        /\ Len(verticalLines) \in config.minRandomCount..config.maxRandomCount
        /\ Len(horizontalLines) \in config.minRandomCount..config.maxRandomCount
        /\ Len(shapes) = (Len(verticalLines) + 1) * (Len(horizontalLines) + 1)
        /\ \A k \in 1..Len(shapes) : Len(shapes[k].points) = 4

\* C3 witness: a regeneration that drew the largest count on one axis and
\* the smallest on the other
CellCountWitness ==
    /\ Running
    /\ lastTickRegenerated
    /\ config.minRandomCount < config.maxRandomCount
    /\ Len(verticalLines) = config.maxRandomCount
    /\ Len(horizontalLines) = config.minRandomCount
    /\ Len(shapes) = (config.maxRandomCount + 1) * (config.minRandomCount + 1)

---------------------------------------------------------------------------

\* C4: without a 2D context construction fails at once and the animation
\* never starts (no cells, no tick, no frame callback, nothing painted,
\* phase at its initial value); a failed construction has no other cause.
NoContextNeverStarts ==
    /\ ~contextAvailable =>
           /\ ~Running
           /\ shapes = << >>
           /\ generations = 0
           /\ ticks = 0
           /\ pendingFrames = 0
           /\ ~frame.painted
           /\ phase = Pi
           /\ previousPhase = Pi
    /\ status = "failed" => ~contextAvailable

\* C4 witness: the constructor has thrown
NoContextWitness == status = "failed" /\ ~contextAvailable /\ canvas.width > 0

---------------------------------------------------------------------------

\* d is the largest distanceFromCenter among cells
IsFurthest(d, cells) ==
    /\ \E k \in 1..Len(cells) : cells[k].distanceFromCenter = d
    /\ \A k \in 1..Len(cells) : cells[k].distanceFromCenter <= d

\* C5: at every draw, regenerating ticks included, what draw reads is
\* consistent with the cells it draws: they are the current cell set,
\* maxDistance is the maximum distanceFromCenter over them and
\* maxTotalOffset is maxBaseOffset + maxDistance * distanceMultiplier.
DrawSeesConsistentMaxima ==
    frame.painted =>
        /\ frame.shapes = shapes
        /\ frame.maxDistance = maxDistance
        /\ frame.maxTotalOffset = maxTotalOffset
        /\ IsFurthest(frame.maxDistance, frame.shapes)
        /\ frame.maxTotalOffset
               = config.maxBaseOffset
                   + (frame.maxDistance * config.distanceMultiplier) \div Unit

\* C5 witness: the frame of a regenerating tick, drawing several cells whose
\* furthest one is not the first
DrawSeesConsistentWitness ==
    /\ frame.painted
    /\ lastTickRegenerated
    /\ Len(frame.shapes) > 1
    /\ frame.shapes[1].distanceFromCenter < frame.maxDistance

---------------------------------------------------------------------------

\* a number compares as in JavaScript: every comparison with NaN is false
Finite(a) == a # NaN

\* C6 (as claimed): in every frame and for every cell of every reachable
\* cell set, a cell set whose maxDistance is 0 included, the individual
\* offset is totalOffset for a cell at maxDistance, baseOffset for a cell
\* at distance 0, and between baseOffset and totalOffset otherwise.
IndividualOffsetWithinBounds ==
    frame.painted =>
        \A k \in 1..Len(frame.cells) :
            LET offset   == frame.cells[k].individualOffset
                distance == frame.shapes[k].distanceFromCenter
            IN  /\ Finite(offset)
                /\ distance = frame.maxDistance => offset = frame.totalOffset
                /\ distance = 0 => offset = frame.baseOffset
                /\ frame.baseOffset <= offset
                /\ offset <= frame.totalOffset

\* C6, the cell sets the code handles: with maxDistance > 0 the offsets are
\* as claimed
IndividualOffsetWhenSpread ==
    (frame.painted /\ frame.maxDistance > 0) => IndividualOffsetWithinBounds

---------------------------------------------------------------------------

\* the direction (ux, uy) has unit length to within the rounding of a
\* quotient by the rounded length
UnitLength(ux, uy, length) ==
    /\ ux * ux + uy * uy >= (Unit - 2) * (Unit - 2)
    /\ (Hypot(ux, uy) - 2) * length <= Unit * (length + 1)

\* C7 (as claimed): for every generated cell, center is the mean of its 4
\* points, distanceFromCenter is the Euclidean distance from the region
\* center to center, and directionVector is a defined vector of unit
\* length pointing from the region center toward center, also for a cell
\* whose center lies on the region center.
CellMetadataDefined ==
    Running =>
        \A k \in 1..Len(shapes) :
            LET cell == shapes[k]
                sumX == SumOver([n \in 1..4 |-> cell.points[n].x])
                sumY == SumOver([n \in 1..4 |-> cell.points[n].y])
                dx   == cell.center.x - (config.padding + config.size \div 2)
                dy   == cell.center.y - (config.padding + config.size \div 2)
                d    == cell.distanceFromCenter
                ux   == cell.directionVector.x
                uy   == cell.directionVector.y
            IN  /\ Abs(4 * cell.center.x - sumX) < 4
                /\ Abs(4 * cell.center.y - sumY) < 4
                /\ d >= 0
                /\ d * d <= dx * dx + dy * dy
                /\ dx * dx + dy * dy < (d + 1) * (d + 1)
                /\ Finite(ux)
                /\ Finite(uy)
                /\ UnitLength(ux, uy, d)
                /\ Sgn(ux) * Sgn(dx) >= 0
                /\ Sgn(uy) * Sgn(dy) >= 0

\* C7, the cells the code handles: every cell whose center is off the
\* region center has the metadata as claimed
CellMetadataOffCenter ==
    Running =>
        \A k \in 1..Len(shapes) :
            shapes[k].distanceFromCenter > 0 =>
                LET cell == shapes[k]
                    dx   == cell.center.x - (config.padding + config.size \div 2)
                    dy   == cell.center.y - (config.padding + config.size \div 2)
                    d    == cell.distanceFromCenter
                    ux   == cell.directionVector.x
                    uy   == cell.directionVector.y
                IN  /\ d * d <= dx * dx + dy * dy
                    /\ dx * dx + dy * dy < (d + 1) * (d + 1)
                    /\ Finite(ux)
                    /\ Finite(uy)
                    /\ UnitLength(ux, uy, d)
                    /\ Sgn(ux) * Sgn(dx) >= 0
                    /\ Sgn(uy) * Sgn(dy) >= 0

---------------------------------------------------------------------------

\* this.phase % (2 * Math.PI) in angular steps, a double just below a
\* multiple of 2 pi counted as 2 pi
PhaseMod ==
    IF phase % TwoPi = 0 /\ phaseRoundedDown THEN TwoPi ELSE phase % TwoPi

\* C8 (as amended): in any tick in which regenerateShapes runs, the
\* previous phase satisfies previousPhase mod 2 pi < pi and the advanced
\* phase satisfies pi <= phase mod 2 pi <= pi + animationSpeed, up to the
\* rounding of the sum: the frame that first draws a new cell set is the
\* first frame at or after the trough of cos(phase).  (The frame just
\* before the trough may be nearer to progress 0 than it.)
RegenerationAtFirstFrameAfterTrough ==
    lastTickRegenerated =>
        /\ ModBelowPi(previousPhase, previousPhaseRoundedDown)
        /\ ~ModBelowPi(phase, phaseRoundedDown)
        /\ Pi <= PhaseMod
        /\ PhaseMod <= Pi + config.animationSpeed
        /\ frame.progress = Progress(phase)

\* C8 witness: a regenerating tick that lands strictly after the trough,
\* with a step below pi
RegenerationAfterTroughWitness ==
    /\ lastTickRegenerated
    /\ config.animationSpeed < Pi
    /\ phase % TwoPi > Pi
    /\ frame.progress > 0

\* C8 (as claimed): the same, and the frame that first draws the new cell
\* set is the one with progress nearest 0 in that cycle (no neighbouring
\* frame of the trough has a smaller progress).
RegenerationAtNearestFrame ==
    lastTickRegenerated =>
        /\ Pi <= PhaseMod
        /\ PhaseMod <= Pi + config.animationSpeed
        /\ frame.progress <= Progress(previousPhase)

---------------------------------------------------------------------------

\* C9: the grid generator runs once at startup and once in each tick that
\* crosses a cycle boundary, and in no other tick: a tick whose peak
\* condition (prevMod < pi <= currMod) is false leaves the cell set, every
\* cell's metadata, maxDistance and maxTotalOffset unchanged, and drawing
\* modifies none of them.
GeneratorOnlyAtStartupAndPeaks ==
    [][ ticks' = ticks + 1 =>
          LET peak == SpecPeak(phase, phaseRoundedDown,
                               phase', phaseRoundedDown')
          IN  /\ generations' = (IF status = "new" THEN 1 ELSE generations)
                                  + (IF peak THEN 1 ELSE 0)
              /\ (status = "running" /\ ~peak) =>
                     /\ shapes' = shapes
                     /\ maxDistance' = maxDistance
                     /\ maxTotalOffset' = maxTotalOffset
              /\ frame'.shapes = shapes'
              /\ lastTickRegenerated' = peak ]_vars

\* C9 witness: a tick that did not regenerate, after a regeneration, with
\* one generation at startup and one per regeneration so far
GeneratorOnlyAtPeaksWitness ==
    /\ Running
    /\ regenerations >= 1
    /\ ~lastTickRegenerated
    /\ generations = regenerations + 1
    /\ Len(shapes) > 1

---------------------------------------------------------------------------

\* C10: once construction succeeds the driver never stops: each tick saves
\* phase into previousPhase, advances phase by exactly animationSpeed and
\* leaves exactly one frame callback registered (and no two ticks in a row
\* regenerate), so under a fair host scheduler ticks keep occurring (up to
\* the model's horizon) and, from any point with a full period of ticks
\* still ahead, a regeneration happens again.
DriverNeverStops ==
    /\ [][ ticks' = ticks + 1 =>
             /\ previousPhase' = phase
             /\ phase' = phase + config.animationSpeed
             /\ pendingFrames' = 1
             /\ lastTickRegenerated => ~lastTickRegenerated' ]_vars
    /\ [](Running => pendingFrames = 1)
    /\ (Running ~> ticks = MaxTicks)
    /\ (Running /\ ~lastTickRegenerated /\ ticks + TicksPerPeriod <= MaxTicks)
           ~> lastTickRegenerated

\* C10 witness: the driver at the model's horizon, a callback still
\* registered, having regenerated more than once
DriverNeverStopsWitness ==
    /\ Running
    /\ ticks = MaxTicks
    /\ pendingFrames = 1
    /\ regenerations >= 2
    /\ phase = Pi + MaxTicks * config.animationSpeed

===========================================================================
